---- MODULE Spec2Model ----
(***************************************************************************)
(* Model of validate-structs.py: a script run inside a gdb session that    *)
(* compares, pair by pair, the compiled size of a binding type with the    *)
(* size of the native type it mirrors.                                     *)
(*                                                                         *)
(* The gdb session (its symbol table and its current language) and the     *)
(* Python globals of gdb's interpreter outlive one run of the script, so   *)
(* the model lets the script be sourced again in the same session.         *)
(***************************************************************************)
EXTENDS Integers, Sequences, FiniteSets

(* ------------------------------ bounds --------------------------------- *)

\* longest registry explored
MaxPairs == 2
\* number of distinct byte sizes a symbol may have (23, 24, ...)
NumSizes == 2
\* number of times the script is sourced in one gdb session
MaxRuns == 2

(* --------------------------- input universe ---------------------------- *)

\* binding-side references (first components of checked_types entries)
BindRefs == {"zydis::decoder::Decoder",
             "zydis::ffi::decoder::AccessedFlags<zydis::enums::CpuFlag>"}

\* native-side references (second components), one of them a field access
NativeRefs == {"ZydisAccessedFlags", "((ZydisEncoderOperand*)(0))->reg"}

Refs == BindRefs \cup NativeRefs

\* references whose text holds `<` and `>`, which only the c++ parser accepts
GenericRefs == {"zydis::ffi::decoder::AccessedFlags<zydis::enums::CpuFlag>"}

Sizes == 23..(22 + NumSizes)

Pairs == BindRefs \X NativeRefs

Registries == UNION {[1..n -> Pairs] : n \in 0..MaxPairs}

\* a symbol table: the references the debug information resolves, with sizes
SymbolTables == UNION {[D -> Sizes] : D \in SUBSET Refs}

VARIABLES
    symtab,         \* gdb session: debug information, reference -> size
    lang,           \* gdb session: current language
    checked_types,  \* the registry
    pc,             \* position of the script
    idx,            \* number of registry entries the for loop has taken
    bind_ty_sz,     \* Python global, <<>> while unbound
    c_ty_sz,        \* Python global, <<>> while unbound
    stdout,         \* what this run printed
    err,            \* the exception that ended this run, if any
    queries,        \* history: references handed to gdb.parse_and_eval, this run
    results,        \* history: outcome of each pair taken by the loop, this run
    langSets,       \* history: number of `set language` commands, this run
    history         \* history: (results, stdout, err) of the finished runs

vars == <<symtab, lang, checked_types, pc, idx, bind_ty_sz, c_ty_sz, stdout,
          err, queries, results, langSets, history>>

session == <<symtab, checked_types>>

(* ------------------------------ helpers -------------------------------- *)

Range(s) == {s[k] : k \in DOMAIN s}

Digit == <<"0", "1", "2", "3", "4", "5", "6", "7", "8", "9">>

\* str() of a non-negative integer, as an f-string renders it
RECURSIVE Str(_)
Str(n) == IF n < 10 THEN Digit[n + 1]
          ELSE Str(n \div 10) \o Digit[(n % 10) + 1]

NoError == [kind |-> "none"]

\* the pair the loop variables bind_ty, c_ty are bound to
bind_ty == checked_types[idx][1]
c_ty == checked_types[idx][2]

\* gdb parses the expression in the current language, then looks it up
Resolves(ty) == /\ ty \in DOMAIN symtab
                /\ (ty \in GenericRefs => lang = "c++")

\* sizeof: the value of gdb.parse_and_eval(f'sizeof({ty})') when it resolves
sizeof(ty) == symtab[ty]

\* mutant: a tolerance band of one byte
SizesAgree_tolerant(b, c) == (b - c) \in -1..1

\* the assertion's condition
SizesAgree(b, c) == b = c

\* mutant: the two sizes interpolated the wrong way round
AssertMessage_swapped(bt, ct, b, c) ==
    <<"binding type ", bt, " is ", Str(c), " bytes, but expected ", Str(b)>>

\* the assertion's message, as the pieces of the f-string
AssertMessage(bt, ct, b, c) ==
    <<"binding type ", bt, " is ", Str(b), " bytes, but expected ", Str(c)>>

Terminated == pc \in {"done", "error"}

(* ------------------------------ the script ----------------------------- *)

Init ==
    /\ symtab \in SymbolTables
    /\ checked_types \in Registries
    /\ lang = "auto"
    /\ pc = "set_language"
    /\ idx = 0
    /\ bind_ty_sz = <<>>
    /\ c_ty_sz = <<>>
    /\ stdout = <<>>
    /\ err = NoError
    /\ queries = <<>>
    /\ results = <<>>
    /\ langSets = 0
    /\ history = <<>>

\* mutant: the command flips the language instead of forcing it
SetLanguage_toggle ==
    /\ pc = "set_language"
    /\ lang' = IF lang = "c++" THEN "rust" ELSE "c++"
    /\ langSets' = langSets + 1
    /\ pc' = "for"
    /\ UNCHANGED <<session, idx, bind_ty_sz, c_ty_sz, stdout, err, queries,
                   results, history>>

\* line 4: gdb.execute('set language c++')
SetLanguage ==
    /\ pc = "set_language"
    /\ lang' = "c++"
    /\ langSets' = langSets + 1
    /\ pc' = "for"
    /\ UNCHANGED <<session, idx, bind_ty_sz, c_ty_sz, stdout, err, queries,
                   results, history>>

\* mutant: the language is set again on every iteration
ForNext_setlang ==
    /\ pc = "for"
    /\ IF idx < Len(checked_types)
       THEN /\ idx' = idx + 1
            /\ pc' = "measure_bind"
            /\ lang' = "c++"
            /\ langSets' = langSets + 1
       ELSE /\ idx' = idx
            /\ pc' = "print"
            /\ UNCHANGED <<lang, langSets>>
    /\ UNCHANGED <<session, bind_ty_sz, c_ty_sz, stdout, err, queries,
                   results, history>>

\* line 45: the for statement takes the next entry, or falls through
ForNext ==
    /\ pc = "for"
    /\ IF idx < Len(checked_types)
       THEN /\ idx' = idx + 1
            /\ pc' = "measure_bind"
       ELSE /\ idx' = idx
            /\ pc' = "print"
    /\ UNCHANGED <<session, lang, bind_ty_sz, c_ty_sz, stdout, err, queries,
                   results, langSets, history>>

\* mutant: the resolution error is caught and the loop goes on
MeasureBind_continue ==
    /\ pc = "measure_bind"
    /\ queries' = Append(queries, bind_ty)
    /\ IF Resolves(bind_ty)
       THEN /\ bind_ty_sz' = <<sizeof(bind_ty)>>
            /\ pc' = "measure_c"
            /\ UNCHANGED <<err, results>>
       ELSE /\ err' = [kind |-> "gdb.error", ty |-> bind_ty]
            /\ results' = Append(results, [kind |-> "Unresolved", side |-> "binding"])
            /\ pc' = "for"
            /\ UNCHANGED bind_ty_sz
    /\ UNCHANGED <<session, lang, idx, c_ty_sz, stdout, langSets, history>>

\* mutant: an unresolved reference measures as zero
MeasureBind_zero ==
    /\ pc = "measure_bind"
    /\ queries' = Append(queries, bind_ty)
    /\ bind_ty_sz' = IF Resolves(bind_ty) THEN <<sizeof(bind_ty)>> ELSE <<0>>
    /\ pc' = "measure_c"
    /\ UNCHANGED <<session, lang, idx, c_ty_sz, stdout, err, results, langSets,
                   history>>

\* mutant: an unresolved reference is asked for again until it resolves
MeasureBind_retry ==
    /\ pc = "measure_bind"
    /\ queries' = Append(queries, bind_ty)
    /\ IF Resolves(bind_ty)
       THEN /\ bind_ty_sz' = <<sizeof(bind_ty)>>
            /\ pc' = "measure_c"
       ELSE /\ pc' = "measure_bind"
            /\ UNCHANGED bind_ty_sz
    /\ UNCHANGED <<session, lang, idx, c_ty_sz, stdout, err, results, langSets,
                   history>>

\* line 46: bind_ty_sz = sizeof(bind_ty); gdb.error propagates
MeasureBind ==
    /\ pc = "measure_bind"
    /\ queries' = Append(queries, bind_ty)
    /\ IF Resolves(bind_ty)
       THEN /\ bind_ty_sz' = <<sizeof(bind_ty)>>
            /\ pc' = "measure_c"
            /\ UNCHANGED <<err, results>>
       ELSE /\ err' = [kind |-> "gdb.error", ty |-> bind_ty]
            /\ results' = Append(results, [kind |-> "Unresolved", side |-> "binding"])
            /\ pc' = "error"
            /\ UNCHANGED bind_ty_sz
    /\ UNCHANGED <<session, lang, idx, c_ty_sz, stdout, langSets, history>>

\* mutant: the resolution error is swallowed and the loop goes on
MeasureC_continue ==
    /\ pc = "measure_c"
    /\ queries' = Append(queries, c_ty)
    /\ IF Resolves(c_ty)
       THEN /\ c_ty_sz' = <<sizeof(c_ty)>>
            /\ pc' = "assert"
            /\ UNCHANGED results
       ELSE /\ results' = Append(results, [kind |-> "Unresolved", side |-> "native"])
            /\ pc' = "for"
            /\ UNCHANGED c_ty_sz
    /\ UNCHANGED <<session, lang, idx, bind_ty_sz, stdout, err, langSets, history>>

\* mutant: the size of a native reference seen in the previous pair is reused
MeasureC_cached ==
    /\ pc = "measure_c"
    /\ IF idx > 1 /\ checked_types[idx - 1][2] = c_ty /\ c_ty_sz # <<>>
       THEN /\ pc' = "assert"
            /\ UNCHANGED <<queries, c_ty_sz, err, results>>
       ELSE /\ queries' = Append(queries, c_ty)
            /\ IF Resolves(c_ty)
               THEN /\ c_ty_sz' = <<sizeof(c_ty)>>
                    /\ pc' = "assert"
                    /\ UNCHANGED <<err, results>>
               ELSE /\ err' = [kind |-> "gdb.error", ty |-> c_ty]
                    /\ results' = Append(results, [kind |-> "Unresolved", side |-> "native"])
                    /\ pc' = "error"
                    /\ UNCHANGED c_ty_sz
    /\ UNCHANGED <<session, lang, idx, bind_ty_sz, stdout, langSets, history>>

\* line 47: c_ty_sz = sizeof(c_ty); gdb.error propagates
MeasureC ==
    /\ pc = "measure_c"
    /\ queries' = Append(queries, c_ty)
    /\ IF Resolves(c_ty)
       THEN /\ c_ty_sz' = <<sizeof(c_ty)>>
            /\ pc' = "assert"
            /\ UNCHANGED <<err, results>>
       ELSE /\ err' = [kind |-> "gdb.error", ty |-> c_ty]
            /\ results' = Append(results, [kind |-> "Unresolved", side |-> "native"])
            /\ pc' = "error"
            /\ UNCHANGED c_ty_sz
    /\ UNCHANGED <<session, lang, idx, bind_ty_sz, stdout, langSets, history>>

\* mutant: a failed comparison is reported and the loop goes on
AssertSizes_continue ==
    /\ pc = "assert"
    /\ IF SizesAgree(bind_ty_sz[1], c_ty_sz[1])
       THEN /\ results' = Append(results, [kind |-> "Pass"])
            /\ UNCHANGED err
       ELSE /\ results' = Append(results, [kind |-> "Fail",
                                           bindingSize |-> bind_ty_sz[1],
                                           nativeSize |-> c_ty_sz[1]])
            /\ err' = [kind |-> "AssertionError",
                       msg |-> AssertMessage(bind_ty, c_ty, bind_ty_sz[1], c_ty_sz[1])]
    /\ pc' = "for"
    /\ UNCHANGED <<session, lang, idx, bind_ty_sz, c_ty_sz, stdout, queries,
                   langSets, history>>

\* lines 49-50: assert bind_ty_sz == c_ty_sz, f'...'
AssertSizes ==
    /\ pc = "assert"
    /\ IF SizesAgree(bind_ty_sz[1], c_ty_sz[1])
       THEN /\ results' = Append(results, [kind |-> "Pass"])
            /\ pc' = "for"
            /\ UNCHANGED err
       ELSE /\ results' = Append(results, [kind |-> "Fail",
                                           bindingSize |-> bind_ty_sz[1],
                                           nativeSize |-> c_ty_sz[1]])
            /\ err' = [kind |-> "AssertionError",
                       msg |-> AssertMessage(bind_ty, c_ty, bind_ty_sz[1], c_ty_sz[1])]
            /\ pc' = "error"
    /\ UNCHANGED <<session, lang, idx, bind_ty_sz, c_ty_sz, stdout, queries,
                   langSets, history>>

\* line 52: print("ALL STRUCTS OK")
PrintOk ==
    /\ pc = "print"
    /\ stdout' = Append(stdout, "ALL STRUCTS OK")
    /\ pc' = "done"
    /\ UNCHANGED <<session, lang, idx, bind_ty_sz, c_ty_sz, err, queries,
                   results, langSets, history>>

\* the script is sourced again in the same gdb session: the session's
\* language and the interpreter's globals are kept
Rerun ==
    /\ Terminated
    /\ Len(history) + 1 < MaxRuns
    /\ history' = Append(history, [results |-> results, stdout |-> stdout, err |-> err])
    /\ pc' = "set_language"
    /\ idx' = 0
    /\ stdout' = <<>>
    /\ err' = NoError
    /\ queries' = <<>>
    /\ results' = <<>>
    /\ langSets' = 0
    /\ UNCHANGED <<session, lang, bind_ty_sz, c_ty_sz>>

Step == SetLanguage \/ ForNext \/ MeasureBind \/ MeasureC \/ AssertSizes \/ PrintOk

Next == SetLanguage \/ ForNext \/ MeasureBind \/ MeasureC \/ AssertSizes
        \/ PrintOk \/ Rerun

Spec == Init /\ [][Next]_vars

\* a run of the script is synchronous and single-threaded: once started it
\* keeps executing statements until it ends
LiveSpec == Init /\ [][Next]_vars /\ WF_vars(Step)

(* ----------------------- what the session determines ------------------- *)

Sentinel == "ALL STRUCTS OK"

\* the debug information resolves both references of registry entry k
BothResolve(k) == /\ checked_types[k][1] \in DOMAIN symtab
                  /\ checked_types[k][2] \in DOMAIN symtab

\* registry entry k resolves on both sides, with the same size
PairAgrees(k) == /\ BothResolve(k)
                 /\ symtab[checked_types[k][1]] = symtab[checked_types[k][2]]

AllAgree == \A k \in 1..Len(checked_types) : PairAgrees(k)

\* the reference a run asks for in its q-th query when nothing is skipped
ExpectedQuery(q) == IF q % 2 = 1 THEN checked_types[(q + 1) \div 2][1]
                    ELSE checked_types[q \div 2][2]

LastKind == IF results = <<>> THEN "none" ELSE results[Len(results)].kind

Outcome == [results |-> results, stdout |-> stdout, err |-> err]

(* -------------------------------- claims ------------------------------- *)

C3_Verdict ==
    /\ Sentinel \in Range(stdout) => (AllAgree /\ pc = "done" /\ err = NoError)
    /\ Terminated => (stdout = <<Sentinel>> <=> AllAgree)
    /\ (Terminated /\ ~AllAgree) => (pc = "error" /\ err # NoError /\ stdout = <<>>)

C3_Witness ==
    /\ pc = "done"
    /\ stdout = <<Sentinel>>
    /\ Len(checked_types) >= 2
    /\ checked_types[1] # checked_types[2]

\* C4: a pair the run evaluated whose two sides resolve passed exactly when
\* the two sizes of the debug information are equal; any difference, one
\* byte included, gives Fail with the two sizes.
C4_ExactAgreement ==
    \A k \in 1..Len(results) :
        BothResolve(k)
            => /\ results[k].kind = "Pass" <=> PairAgrees(k)
               /\ ~PairAgrees(k)
                    => results[k] = [kind |-> "Fail",
                                     bindingSize |-> symtab[checked_types[k][1]],
                                     nativeSize |-> symtab[checked_types[k][2]]]

C4_Witness ==
    /\ Len(results) = 2
    /\ results[1].kind = "Pass"
    /\ results[2] = [kind |-> "Fail", bindingSize |-> 23, nativeSize |-> 24]

\* C5: a pair with an unresolved side never passes, and the values the
\* assertion compares are the sizes the debug information holds for the two
\* references, never a stand-in.
C5_NoFalsePass ==
    /\ \A k \in 1..Len(results) : results[k].kind = "Pass" => BothResolve(k)
    /\ pc = "assert" => /\ BothResolve(idx)
                        /\ bind_ty_sz = <<symtab[bind_ty]>>
                        /\ c_ty_sz = <<symtab[c_ty]>>
    /\ pc = "measure_c" => /\ bind_ty \in DOMAIN symtab
                           /\ bind_ty_sz = <<symtab[bind_ty]>>

C5_Witness ==
    /\ pc = "error"
    /\ Len(results) = 2
    /\ results[1].kind = "Pass"
    /\ results[2].kind = "Unresolved"
    /\ bind_ty_sz # <<>>
    /\ c_ty_sz # <<>>

C7_Determinism ==
    /\ \A j \in 1..Len(history) : history[j] = history[1]
    /\ (Terminated /\ history # <<>>) => Outcome = history[1]

C7_Witness ==
    /\ Terminated
    /\ history # <<>>
    /\ Len(results) = 2
    /\ \E k \in 1..2 : checked_types[k][1] \in GenericRefs

\* C8: in every run the language is set once, before the first query: each
\* query is issued with the language already c++ and set once in this run,
\* and the query does not set it.
C8_DialectOnce ==
    /\ [](Terminated => langSets = 1)
    /\ [][Len(queries') > Len(queries)
            => /\ lang = "c++"
               /\ langSets = 1
               /\ lang' = lang
               /\ langSets' = langSets]_vars

C8_Witness ==
    /\ history # <<>>
    /\ Len(queries) >= 3
    /\ langSets = 1

C10_Terminates ==
    /\ (pc = "set_language") ~> Terminated
    /\ [](Len(queries) <= 2 * idx /\ idx <= Len(checked_types))
    /\ [](pc = "done" => (stdout = <<Sentinel>> /\ err = NoError))
    /\ [](pc = "error" => (stdout = <<>> /\ err.kind \in {"AssertionError", "gdb.error"}))
    /\ [](~Terminated => stdout = <<>> /\ err = NoError)

C10_Witness ==
    /\ pc = "error"
    /\ history # <<>>
    /\ Len(checked_types) >= 2
    /\ Len(queries) = 2 * Len(checked_types)

====
